---- MODULE Spec2Model ----
(***************************************************************************)
(* A model of app.py: the Flask rewards application.  The persisted state  *)
(* is the three tables users, tasks and task_types; every client (browser) *)
(* holds its own signed session cookie and has at most one request in      *)
(* flight.  A handler that reads and then commits is split between its     *)
(* reads and its commit, so that requests of different clients interleave  *)
(* the way the threaded server lets them.                                  *)
(***************************************************************************)
EXTENDS Integers, Sequences, FiniteSets, TLC

\* ---------------------------------------------------------------- bounds
MaxUsers == 2
MaxTasks == 2

Clients == {"c1", "c2"}
UserIds == 1..MaxUsers

\* Request inputs ("" is an empty form field).
\* The forms submitted to register: an empty field, and three that agree
\* pairwise on the email, on the username, or on neither.
RegisterForms ==
    { << "", "alice" >>, << "a@x.com", "alice" >>,
      << "a@x.com", "bob" >>, << "b@x.com", "alice" >> }
Passwords == {"pw123"}
\* The forms submitted to login: an empty field, the registered password,
\* another password, and an email that may belong to no user.
LoginForms ==
    { << "", "pw123" >>, << "a@x.com", "pw123" >>,
      << "a@x.com", "other" >>, << "b@x.com", "pw123" >> }
Salts == {"salt1"}
\* The task_type_id of a body: 0 is falsy, 1 the id of the seeded survey
\* type, 6 an id no row of task_types carries.
TaskTypeIdInputs == {0, 1, 6}
TaskUrls == {""}
\* Values and rows an administrator edits directly in storage.
RewardEdits == {20}
EditableTypeIds == {1}
DeletableUserIds == {1}
SwitchableTypeIds == {1}

NoUser == [id |-> 0]
NoTaskType == [id |-> 0]

\* ------------------------------------------------------------ the tables
\* class User: a row of table users.
User(id, email, username, password_hash) ==
    [id |-> id, email |-> email, username |-> username,
     password_hash |-> password_hash,
     cookies_earned |-> 0, total_tasks_completed |-> 0]

\* class TaskType: a row of table task_types.
TaskType(id, name, description, cookies_reward) ==
    [id |-> id, name |-> name, description |-> description,
     cookies_reward |-> cookies_reward, is_active |-> TRUE]

\* init_db: the catalog seeded when task_types is empty.
sample_tasks ==
    << TaskType(1, "survey", "Complete Online Survey", 10),
       TaskType(2, "video_watch", "Watch YouTube Video", 5),
       TaskType(3, "social_follow", "Follow Social Media Account", 3),
       TaskType(4, "app_install", "Install Mobile App", 15),
       TaskType(5, "website_visit", "Visit Partner Website", 2) >>

VARIABLES
    users,       \* table users: id -> row, NoUser where no row has the id
    nextUserId,  \* the next primary key of table users
    tasks,       \* table tasks, in insertion order (the index is the id)
    taskTypes,   \* table task_types: id -> row
    session,     \* session[c]: client c's cookie, the set of user ids under
                 \* its key 'user_id' (empty: the key is absent)
    req,         \* req[c]: client c's request in flight: its inputs, the
                 \* handler's position and the objects it has loaded
    last         \* the response sent last, and the kind of its request

vars == << users, nextUserId, tasks, taskTypes, session, req, last >>

\* ------------------------------------------------------- pure operations
\* User.set_password: a salted one-way hash, kept as salt and digest.
set_password(password, salt) == [salt |-> salt, digest |-> << salt, password >>]

\* User.check_password: hash the candidate under the stored salt, compare.
check_passwordAlways(user, password) == TRUE
check_password(user, password) ==
    << user.password_hash.salt, password >> = user.password_hash.digest

\* register: the rows matching (User.email == email) | (User.username == username).
ExistingUser(email, username) ==
    {u \in UserIds : users[u] # NoUser
                     /\ (users[u].email = email \/ users[u].username = username)}

\* login: User.query.filter_by(email=email).first()
UserByEmail(email) ==
    {u \in UserIds : users[u] # NoUser /\ users[u].email = email}

\* User.query.get(id): the row with that primary key, or none.
GetUser(id) == IF id \in UserIds THEN users[id] ELSE NoUser

\* TaskType.query.get(id)
GetTaskType(id) == IF id \in DOMAIN taskTypes THEN taskTypes[id] ELSE NoTaskType

\* 'user_id' not in session
NotInSessionNever(c) == FALSE
NotInSession(c) == session[c] = {}

\* session['user_id']; 0, the key of no row, stands for the absent key.
SessionUserId(c) == IF session[c] = {} THEN 0 ELSE CHOOSE u \in session[c] : TRUE

\* complete_task: not task_type or not task_type.is_active
InvalidTaskTypeIgnoreActive(tt) == tt = NoTaskType
InvalidTaskType(tt) == tt = NoTaskType \/ ~tt.is_active

\* complete_task: the Task built from the loaded user and task type.
Task(user, tt, task_url) ==
    [user_id |-> user.id, task_type |-> tt.name, task_name |-> tt.description,
     task_url |-> task_url, cookies_reward |-> tt.cookies_reward,
     status |-> "completed"]

\* complete_task: user.cookies_earned += reward; user.total_tasks_completed += 1
UpdateStatsNoCount(user, tt) ==
    [user EXCEPT !.cookies_earned = @ + tt.cookies_reward]
UpdateStats(user, tt) ==
    [user EXCEPT !.cookies_earned = @ + tt.cookies_reward,
                 !.total_tasks_completed = @ + 1]

\* db.session.add(task) and the INSERT of the commit.
InsertTaskLive(ts, t) ==
    Append([i \in 1..Len(ts) |->
               IF ts[i].task_type = t.task_type
               THEN [ts[i] EXCEPT !.cookies_reward = t.cookies_reward]
               ELSE ts[i]], t)
InsertTask(ts, t) == Append(ts, t)

\* The UPDATE of the commit: the loaded user's changed columns, by primary key.
UpdateUser(us, user) ==
    [us EXCEPT ![user.id].cookies_earned = user.cookies_earned,
               ![user.id].total_tasks_completed = user.total_tasks_completed]

\* db.session.rollback(): the pending INSERT and UPDATE are discarded.
RollbackKeepsInsert(ts, pending) == Append(ts, pending)
Rollback(ts, pending) == ts

\* The unique constraints of users.email and users.username.
UniqueViolationNone(email, username) == FALSE
UniqueViolation(email, username) ==
    \E u \in UserIds : users[u] # NoUser
        /\ (users[u].email = email \/ users[u].username = username)

\* ------------------------------------------------------------- responses
Resp(kind, status, msg) ==
    [kind |-> kind, status |-> status, msg |-> msg,
     cookies_earned |-> 0, total_cookies |-> 0, total_tasks |-> 0]

\* No request in flight.
Idle ==
    [pc |-> "done", email |-> "", username |-> "", password |-> "",
     task_url |-> "", tt |-> NoTaskType, user |-> NoUser]

InFlight(pc) == Cardinality({c \in Clients : req[c].pc = pc})

Init ==
    /\ users = [u \in UserIds |-> NoUser]
    /\ nextUserId = 1
    /\ tasks = << >>
    /\ taskTypes = [i \in 1..Len(sample_tasks) |-> sample_tasks[i]]
    /\ session = [c \in Clients |-> {}]
    /\ req = [c \in Clients |-> Idle]
    /\ last = Resp("none", 0, "")

\* ------------------------------------------------------------- register
\* register, lines 85-102: validation and the combined lookup.
RegisterBegin(c, email, username, password) ==
    /\ req[c].pc = "done"
    /\ IF email = "" \/ username = "" \/ password = ""
       THEN /\ last' = Resp("register", 302, "All fields are required!")
            /\ UNCHANGED req
       ELSE IF ExistingUser(email, username) # {}
       THEN /\ last' = Resp("register", 302,
                            "User with this email or username already exists!")
            /\ UNCHANGED req
       ELSE /\ nextUserId + InFlight("register_commit") <= MaxUsers
            /\ req' = [req EXCEPT ![c] =
                          [Idle EXCEPT !.pc = "register_commit", !.email = email,
                                       !.username = username, !.password = password]]
            /\ UNCHANGED last
    /\ UNCHANGED << users, nextUserId, tasks, taskTypes, session >>

\* register, lines 105-114: the INSERT commits and the session is set.
RegisterCommit(c) ==
    /\ req[c].pc = "register_commit"
    /\ ~UniqueViolation(req[c].email, req[c].username)
    /\ \E salt \in Salts :
          users' = [users EXCEPT ![nextUserId] =
                       User(nextUserId, req[c].email, req[c].username,
                            set_password(req[c].password, salt))]
    /\ nextUserId' = nextUserId + 1
    /\ session' = [session EXCEPT ![c] = {nextUserId}]
    /\ req' = [req EXCEPT ![c] = Idle]
    /\ last' = Resp("register", 302, "Account created successfully!")
    /\ UNCHANGED << tasks, taskTypes >>

\* register, lines 116-120: the commit raises (a unique constraint, or the
\* storage failing) and is rolled back.
RegisterFail(c) ==
    /\ req[c].pc = "register_commit"
    /\ req' = [req EXCEPT ![c] = Idle]
    /\ last' = Resp("register", 302, "Error creating account. Please try again.")
    /\ UNCHANGED << users, nextUserId, tasks, taskTypes, session >>

\* ---------------------------------------------------------------- login
\* The second handler bound to /register, lines 126-143: the login logic.
Login(c, email, password) ==
    /\ req[c].pc = "done"
    /\ IF email = "" \/ password = ""
       THEN /\ last' = Resp("login", 302, "Email and password are required!")
            /\ UNCHANGED session
       ELSE IF \E u \in UserByEmail(email) : check_password(users[u], password)
       THEN /\ \E u \in UserByEmail(email) :
                  /\ check_password(users[u], password)
                  /\ session' = [session EXCEPT ![c] = {users[u].id}]
            /\ last' = Resp("login", 302, "Login successful!")
       ELSE /\ last' = Resp("login", 200, "Invalid email or password!")
            /\ UNCHANGED session
    /\ UNCHANGED << users, nextUserId, tasks, taskTypes, req >>

\* logout: session.clear()
Logout(c) ==
    /\ req[c].pc = "done"
    /\ session' = [session EXCEPT ![c] = {}]
    /\ last' = Resp("logout", 302, "You have been logged out.")
    /\ UNCHANGED << users, nextUserId, tasks, taskTypes, req >>

\* ------------------------------------------------- dashboard, user_stats
Dashboard(c) ==
    /\ req[c].pc = "done"
    /\ IF NotInSession(c)
       THEN /\ last' = Resp("dashboard", 302, "Please log in to access dashboard.")
            /\ UNCHANGED session
       ELSE IF GetUser(SessionUserId(c)) = NoUser
       THEN /\ session' = [session EXCEPT ![c] = {}]
            /\ last' = Resp("dashboard", 302, "User not found. Please log in again.")
       ELSE /\ last' = Resp("dashboard", 200, "dashboard.html")
            /\ UNCHANGED session
    /\ UNCHANGED << users, nextUserId, tasks, taskTypes, req >>

UserStats(c) ==
    /\ req[c].pc = "done"
    /\ LET user == GetUser(SessionUserId(c))
       IN  IF NotInSession(c)
           THEN last' = Resp("user_stats", 401, "Not authenticated")
           ELSE IF user = NoUser
           THEN last' = Resp("user_stats", 401, "User not found")
           ELSE last' = [Resp("user_stats", 200, "to_dict") EXCEPT
                            !.total_cookies = user.cookies_earned,
                            !.total_tasks = user.total_tasks_completed]
    /\ UNCHANGED << users, nextUserId, tasks, taskTypes, session, req >>

\* --------------------------------------------------------- complete_task
\* complete_task, lines 170-188: the session check, the body, the task type
\* and the user.  The two reads are one step: the read of task_types
\* depends on no row of users and the read of users on no row of task_types,
\* so a change between them acts as it does before or after both.
CompleteTaskBegin(c, task_type_id, task_url) ==
    /\ req[c].pc = "done"
    /\ LET task_type == GetTaskType(task_type_id)
           user == GetUser(SessionUserId(c))
       IN  IF NotInSession(c)
           THEN /\ last' = Resp("complete_task", 401, "Not authenticated")
                /\ UNCHANGED req
           ELSE IF task_type_id = 0
           THEN /\ last' = Resp("complete_task", 400, "Task type is required")
                /\ UNCHANGED req
           ELSE IF InvalidTaskType(task_type)
           THEN /\ last' = Resp("complete_task", 400, "Invalid task type")
                /\ UNCHANGED req
           ELSE IF user = NoUser
           THEN /\ last' = Resp("complete_task", 401, "User not found")
                /\ UNCHANGED req
           ELSE /\ Len(tasks) + InFlight("complete_commit") < MaxTasks
                /\ req' = [req EXCEPT ![c] =
                              [Idle EXCEPT !.pc = "complete_commit",
                                           !.task_url = task_url,
                                           !.tt = task_type, !.user = user]]
                /\ UNCHANGED last
    /\ UNCHANGED << users, nextUserId, tasks, taskTypes, session >>

\* complete_task, lines 190-213: the task is built, the loaded user's totals
\* are raised in memory, and one commit writes the UPDATE and the INSERT.
CompleteTaskCommit(c) ==
    /\ req[c].pc = "complete_commit"
    /\ users[req[c].user.id] # NoUser
    /\ LET task == Task(req[c].user, req[c].tt, req[c].task_url)
           user == UpdateStats(req[c].user, req[c].tt)
       IN  /\ users' = UpdateUser(users, user)
           /\ tasks' = InsertTask(tasks, task)
           /\ last' = [Resp("complete_task", 200, "Task completed successfully!")
                          EXCEPT !.cookies_earned = req[c].tt.cookies_reward,
                                 !.total_cookies = user.cookies_earned,
                                 !.total_tasks = user.total_tasks_completed]
    /\ req' = [req EXCEPT ![c] = Idle]
    /\ UNCHANGED << nextUserId, taskTypes, session >>

\* complete_task, lines 215-218: the commit raises (the row to update is
\* gone, or the storage fails) and is rolled back.
CompleteTaskFail(c) ==
    /\ req[c].pc = "complete_commit"
    /\ tasks' = Rollback(tasks, Task(req[c].user, req[c].tt, req[c].task_url))
    /\ req' = [req EXCEPT ![c] = Idle]
    /\ last' = Resp("complete_task", 500, "Failed to complete task")
    /\ UNCHANGED << users, nextUserId, taskTypes, session >>

\* ------------------------------------------- rows changed out of band
\* A users row is removed in storage (the handlers' "if not user" case).
\* tasks.user_id is a foreign key: only a user without tasks can go.
DeleteUser(u) ==
    /\ users[u] # NoUser
    /\ \A i \in 1..Len(tasks) : tasks[i].user_id # u
    /\ users' = [users EXCEPT ![u] = NoUser]
    /\ UNCHANGED << nextUserId, tasks, taskTypes, session, req, last >>

\* task_types.cookies_reward is edited in storage.
SetReward(t, reward) ==
    /\ taskTypes[t].cookies_reward # reward
    /\ taskTypes' = [taskTypes EXCEPT ![t].cookies_reward = reward]
    /\ UNCHANGED << users, nextUserId, tasks, session, req, last >>

\* task_types.is_active is edited in storage.
SetActive(t, active) ==
    /\ taskTypes[t].is_active # active
    /\ taskTypes' = [taskTypes EXCEPT ![t].is_active = active]
    /\ UNCHANGED << users, nextUserId, tasks, session, req, last >>

\* A step of client c's request.
Request(c) ==
    \/ \E f \in RegisterForms, p \in Passwords : RegisterBegin(c, f[1], f[2], p)
    \/ RegisterCommit(c)
    \/ RegisterFail(c)
    \/ \E f \in LoginForms : Login(c, f[1], f[2])
    \/ Logout(c)
    \/ Dashboard(c)
    \/ UserStats(c)
    \/ \E t \in TaskTypeIdInputs, url \in TaskUrls : CompleteTaskBegin(c, t, url)
    \/ CompleteTaskCommit(c)
    \/ CompleteTaskFail(c)

OutOfBand ==
    \/ \E u \in DeletableUserIds : DeleteUser(u)
    \/ \E t \in EditableTypeIds, r \in RewardEdits : SetReward(t, r)
    \/ \E t \in SwitchableTypeIds, b \in BOOLEAN : SetActive(t, b)

Next == (\E c \in Clients : Request(c)) \/ OutOfBand

\* The threaded server: requests of different clients interleave.
Spec == Init /\ [][Next]_vars

\* One request at a time: a request starts while no request is in flight.
Quiet == \A d \in Clients : req[d].pc = "done"

RequestSeq(c) ==
    \/ Quiet /\ \E f \in RegisterForms, p \in Passwords :
                    RegisterBegin(c, f[1], f[2], p)
    \/ Quiet /\ \E f \in LoginForms : Login(c, f[1], f[2])
    \/ Quiet /\ Logout(c)
    \/ Quiet /\ Dashboard(c)
    \/ Quiet /\ UserStats(c)
    \/ Quiet /\ \E t \in TaskTypeIdInputs, url \in TaskUrls :
                    CompleteTaskBegin(c, t, url)
    \/ RegisterCommit(c)
    \/ RegisterFail(c)
    \/ CompleteTaskCommit(c)
    \/ CompleteTaskFail(c)

NextSeq == (\E c \in Clients : RequestSeq(c)) \/ OutOfBand

SpecSeq == Init /\ [][NextSeq]_vars

\* ================================================================ claims
RECURSIVE SumRewards(_, _)
\* The sum of cookies_reward over the first n rows of tasks owned by user u.
SumRewards(u, n) ==
    IF n = 0 THEN 0
    ELSE SumRewards(u, n - 1)
         + (IF tasks[n].user_id = u THEN tasks[n].cookies_reward ELSE 0)

\* Client c's complete_task reaches its commit and the request ends.
CommitEnds(c) == req[c].pc = "complete_commit" /\ req'[c].pc = "done"

\* The task type id names no row of task_types, or an inactive one.
NoActiveType(t) == t \notin DOMAIN taskTypes \/ ~taskTypes[t].is_active

C2_CookiesEqualTaskSum ==
    \A u \in UserIds :
        users[u] # NoUser => users[u].cookies_earned = SumRewards(u, Len(tasks))

\* C3: every successful commit of a complete_task adds its reward to the
\* persisted cookies_earned and 1 to the persisted total_tasks_completed,
\* whatever other completion committed since the call read the user row.
C3_BothIncrementsApply ==
    [][\A c \in Clients :
          (CommitEnds(c) /\ last'.status = 200) =>
              LET u == req[c].user.id
              IN  /\ users'[u].cookies_earned
                         = users[u].cookies_earned + req[c].tt.cookies_reward
                  /\ users'[u].total_tasks_completed
                         = users[u].total_tasks_completed + 1]_vars

\* C4 as stated: a complete_task call (of a client with a session) whose
\* task_type_id names no TaskType or an inactive one is answered 400
\* 'Invalid task type' and changes neither tasks nor users.
C4_AlwaysInvalidTaskType ==
    [][\A c \in Clients, t \in TaskTypeIdInputs, url \in TaskUrls :
          (session[c] # {} /\ NoActiveType(t) /\ CompleteTaskBegin(c, t, url)) =>
              /\ last' = Resp("complete_task", 400, "Invalid task type")
              /\ tasks' = tasks /\ users' = users]_vars

\* C4 amended: such a call with a non-zero task_type_id is answered 400
\* 'Invalid task type', one with task_type_id 0 is answered 400 'Task type
\* is required'; either way the request ends there and neither tasks nor
\* users change.
C4_InvalidTaskTypeRejected ==
    [][\A c \in Clients, t \in TaskTypeIdInputs, url \in TaskUrls :
          (session[c] # {} /\ NoActiveType(t) /\ CompleteTaskBegin(c, t, url)) =>
              /\ t # 0 => last' = Resp("complete_task", 400, "Invalid task type")
              /\ t = 0 => last' = Resp("complete_task", 400, "Task type is required")
              /\ req'[c].pc = "done"
              /\ tasks' = tasks /\ users' = users]_vars

\* The seeded type is inactive and a call was answered 'Invalid task type'.
C4_Witness ==
    /\ last = Resp("complete_task", 400, "Invalid task type")
    /\ ~taskTypes[1].is_active
    /\ \E c \in Clients : session[c] # {}

\* C5: a complete_task whose commit fails leaves users and tasks exactly as
\* they were and answers 500 'Failed to complete task'; users or tasks
\* change at a commit only when the call succeeds, and then one Task row
\* is added.
C5_AllOrNothing ==
    [][\A c \in Clients :
          CommitEnds(c) =>
              /\ last'.status # 200 =>
                    /\ last' = Resp("complete_task", 500, "Failed to complete task")
                    /\ users' = users /\ tasks' = tasks
              /\ (users' # users \/ tasks' # tasks) =>
                    /\ last'.status = 200
                    /\ Len(tasks') = Len(tasks) + 1]_vars

\* A commit has failed while a user and the catalog are in place.
C5_Witness ==
    /\ last = Resp("complete_task", 500, "Failed to complete task")
    /\ \E u \in UserIds : users[u] # NoUser

\* No two rows of users share an email, and no two share a username.
UniqueUsers ==
    \A u, v \in UserIds :
        (u # v /\ users[u] # NoUser /\ users[v] # NoUser) =>
            /\ users[u].email # users[v].email
            /\ users[u].username # users[v].username

\* C6: a register call whose email or username is that of an existing user
\* ends with the conflict message and creates no row; and in every state no
\* two users share an email or a username.
C6_RegisterConflict ==
    /\ []UniqueUsers
    /\ [][\A c \in Clients :
            (req[c].pc = "done"
             /\ (req'[c].pc = "register_commit" \/ last'.kind = "register")) =>
            \A f \in RegisterForms, p \in Passwords :
               (/\ f[1] # "" /\ f[2] # "" /\ p # ""
                /\ \E u \in UserIds : /\ users[u] # NoUser
                                      /\ (users[u].email = f[1]
                                          \/ users[u].username = f[2])
                /\ RegisterBegin(c, f[1], f[2], p)) =>
                   /\ last' = Resp("register", 302,
                                   "User with this email or username already exists!")
                   /\ req'[c].pc = "done"
                   /\ users' = users /\ session' = session]_vars

\* Two users are registered and a register call was refused as a conflict.
C6_Witness ==
    /\ last.msg = "User with this email or username already exists!"
    /\ \E u, v \in UserIds : u # v /\ users[u] # NoUser /\ users[v] # NoUser

\* Client c's cookie names a user id that no row of users carries.
StaleSession(c) == session[c] # {} /\ \A u \in session[c] : users[u] = NoUser

\* C7: the first step of dashboard, complete_task and user_stats on a stale
\* session clears the session and answers as without a session: the
\* redirect to login for the page, 401 'Not authenticated' for the API.
C7_StaleSessionGate ==
    [][\A c \in Clients :
          /\ (StaleSession(c) /\ Dashboard(c)) =>
                 session'[c] = {} /\ last'.kind = "dashboard" /\ last'.status = 302
          /\ (StaleSession(c) /\ UserStats(c)) =>
                 /\ session'[c] = {}
                 /\ last' = Resp("user_stats", 401, "Not authenticated")
          /\ \A t \in TaskTypeIdInputs, url \in TaskUrls :
                 (StaleSession(c) /\ CompleteTaskBegin(c, t, url)) =>
                     /\ session'[c] = {}
                     /\ last' = Resp("complete_task", 401, "Not authenticated")]_vars

\* C8: login sets the session to user U only when U has the given email and
\* the password hashes to U's stored hash; with non-empty fields and no such
\* user it answers 'Invalid email or password!' and leaves the session alone.
C8_LoginVerifies ==
    [][last'.kind = "login" =>
       \A c \in Clients, f \in LoginForms :
          Login(c, f[1], f[2]) =>
              LET match == {u \in UserIds :
                               /\ users[u] # NoUser
                               /\ users[u].email = f[1]
                               /\ set_password(f[2], users[u].password_hash.salt)
                                      = users[u].password_hash}
              IN  /\ session' # session => session'[c] \in {{u} : u \in match}
                  /\ last'.msg = "Login successful!" =>
                         session'[c] \in {{u} : u \in match}
                  /\ (f[1] # "" /\ f[2] # "" /\ match = {}) =>
                         /\ last' = Resp("login", 200, "Invalid email or password!")
                         /\ session' = session]_vars

\* A login was refused although a user is registered.
C8_Witness ==
    /\ last = Resp("login", 200, "Invalid email or password!")
    /\ \E u \in UserIds : users[u] # NoUser

\* C9: complete_task without a user_id in the session answers 401 'Not
\* authenticated', ends there, and changes no table, whatever the body.
C9_NoSessionNoMutation ==
    [][\A c \in Clients, t \in TaskTypeIdInputs, url \in TaskUrls :
          (session[c] = {} /\ CompleteTaskBegin(c, t, url)) =>
              /\ last' = Resp("complete_task", 401, "Not authenticated")
              /\ req'[c].pc = "done"
              /\ users' = users /\ tasks' = tasks /\ taskTypes' = taskTypes
              /\ nextUserId' = nextUserId /\ session' = session]_vars

\* An unauthenticated call was refused while a user and a task exist.
C9_Witness ==
    /\ last = Resp("complete_task", 401, "Not authenticated")
    /\ Len(tasks) >= 1
    /\ \E c \in Clients : session[c] = {}

\* C10: a Task's cookies_reward is the task type's reward as the call loaded
\* it; no step changes a recorded Task, an edit of task_types changes neither
\* tasks nor users, and a call loads the reward stored when it starts.
C10_RewardSnapshot ==
    [][/\ Len(tasks') >= Len(tasks)
       /\ SubSeq(tasks', 1, Len(tasks)) = tasks
       /\ taskTypes' # taskTypes => (tasks' = tasks /\ users' = users)
       /\ \A c \in Clients :
             (CommitEnds(c) /\ Len(tasks') > Len(tasks)) =>
                 tasks'[Len(tasks')].cookies_reward = req[c].tt.cookies_reward
       /\ \A c \in Clients, t \in TaskTypeIdInputs, url \in TaskUrls :
             (req'[c].pc = "complete_commit" /\ CompleteTaskBegin(c, t, url)) =>
                 req'[c].tt.cookies_reward = taskTypes[t].cookies_reward]_vars

\* A task recorded before the edit keeps its reward, one recorded after it
\* carries the new reward.
C10_Witness ==
    /\ Len(tasks) = 2
    /\ tasks[1].task_type = "survey" /\ tasks[2].task_type = "survey"
    /\ tasks[1].cookies_reward # taskTypes[1].cookies_reward
    /\ tasks[2].cookies_reward = taskTypes[1].cookies_reward
====
